---- MODULE Spec2Model ----
(***************************************************************************)
(* Model of the MIRA backend: the /process and /clarify request handlers   *)
(* of backend/app.py, the intent classifier (agents/intent_classifier.py)  *)
(* and the task router (agents/task_router.py).                            *)
(*                                                                         *)
(* Python strings that the code slices, strips or measures are sequences   *)
(* of one-character strings.  JSON values decoded from the oracle's reply  *)
(* are tagged records [t |-> tag, v |-> payload].  Floats are integers in  *)
(* hundredths.                                                             *)
(***************************************************************************)
EXTENDS Integers, Sequences, FiniteSets, TLC

\* ------------------------------------------------------------------ bounds

\* Requests submitted over the whole run.
MaxRequests == 3

\* ------------------------------------------------------ program constants

MinContentLen == 5
ClassifyPrefixLen == 800
ClarifyPreviewLen == 500
SuccessPreviewLen == 1000
UnknownPreviewLen == 200
SentimentPrefixLen == 500

\* ------------------------------------------------------------- Python text

\* Python's None for an optional str (never equal to a sequence of characters).
None == <<"None">>

Rep(c, n) == [i \in 1..n |-> c]

Ellipsis == <<".", ".", ".">>

Whitespace == {" ", "\t", "\n", "\r"}

RECURSIVE lstrip(_)
lstrip(s) == IF s # <<>> /\ Head(s) \in Whitespace THEN lstrip(Tail(s)) ELSE s

RECURSIVE rstrip(_)
rstrip(s) ==
    IF s # <<>> /\ s[Len(s)] \in Whitespace
    THEN rstrip(SubSeq(s, 1, Len(s) - 1))
    ELSE s

\* str.strip()
strip(s) == rstrip(lstrip(s))

\* s[:n]
Prefix(s, n) == IF Len(s) > n THEN SubSeq(s, 1, n) ELSE s

\* s[:n] + "..." if len(s) > n else s
Preview(s, n) == IF Len(s) > n THEN SubSeq(s, 1, n) \o Ellipsis ELSE s

\* Truth value of an Optional[str]
TruthyText(s) == s # None /\ s # <<>>

\* ------------------------------------------------------------- JSON values

JStr(s) == [t |-> "str", v |-> s]
JNum(n) == [t |-> "num", v |-> n]
JBool(b) == [t |-> "bool", v |-> b]
JNull == [t |-> "null"]
JList(n) == [t |-> "list", v |-> n]
JObj(f) == [t |-> "obj", v |-> f]

\* Strings float() accepts, with their value in hundredths.
NumericLiterals == [x \in {"0.8"} |-> 80]

\* bool(v)
Truthy(v) ==
    CASE v.t = "str" -> v.v # ""
      [] v.t = "num" -> v.v # 0
      [] v.t = "bool" -> v.v
      [] v.t = "null" -> FALSE
      [] v.t = "list" -> v.v > 0
      [] v.t = "obj" -> DOMAIN v.v # {}

\* float(v) returns rather than raises
Floatable(v) ==
    \/ v.t \in {"num", "bool"}
    \/ v.t = "str" /\ v.v \in DOMAIN NumericLiterals

\* float(v), in hundredths
ToFloat(v) ==
    CASE v.t = "num" -> v.v
      [] v.t = "bool" -> IF v.v THEN 100 ELSE 0
      [] v.t = "str" -> NumericLiterals[v.v]

\* hash(v) returns rather than raises TypeError
Hashable(v) == v.t \notin {"list", "obj"}

\* ------------------------------------------------------- intent classifier

CannedQuestion == "I couldn't determine what you'd like me to do. Could you please specify? For example: 'summarize this', 'analyze sentiment', 'explain this code', or ask a specific question."

FallbackReasoning == "Classification service unavailable - requesting user clarification"

\* A fallback that would let the caller dispatch instead of asking.
get_fallback_intent_not_asking ==
    [intent |-> JStr("unknown"),
     confidence |-> 0,
     needs_clarification |-> FALSE,
     clarification_question |-> JNull,
     reasoning |-> JStr(FallbackReasoning),
     success |-> FALSE]

\* IntentClassifier._get_fallback_intent
get_fallback_intent ==
    [intent |-> JStr("unknown"),
     confidence |-> 0,
     needs_clarification |-> TRUE,
     clarification_question |-> JStr(CannedQuestion),
     reasoning |-> JStr(FallbackReasoning),
     success |-> FALSE]

\* A prompt that would leave the user's query out.
PromptWithoutQuery(extracted_text, user_query) ==
    [content |-> Prefix(extracted_text, ClassifyPrefixLen), query |-> None]

\* The part of the prompt that depends on the arguments.
Prompt(extracted_text, user_query) ==
    [content |-> Prefix(extracted_text, ClassifyPrefixLen),
     query |-> IF TruthyText(user_query) THEN user_query ELSE None]

\* dict.get(key, default) on a decoded JSON object
JGet(f, key, default) == IF key \in DOMAIN f THEN f[key] ELSE default

\* The record classify builds from a decoded JSON object (lines 94-103).
ClassificationOf(f) ==
    [intent |-> JGet(f, "intent", JStr("unknown")),
     confidence |-> ToFloat(JGet(f, "confidence", JNum(0))),
     needs_clarification |-> Truthy(JGet(f, "needs_clarification", JBool(FALSE))),
     clarification_question |-> JGet(f, "clarification_question", JNull),
     reasoning |-> JGet(f, "reasoning", JStr("No reasoning provided")),
     success |-> TRUE]

\* The exception classify's try block raises, "none" when it runs to its
\* return: call_llm fails, json.loads fails, the decoded value has no .get,
\* or float() rejects the confidence.
TryException(reply) ==
    IF reply.kind = "error" THEN "LLMClientError"
    ELSE IF reply.kind = "text" THEN "JSONDecodeError"
    ELSE IF reply.value.t # "obj" THEN "AttributeError"
    ELSE IF ~Floatable(JGet(reply.value.v, "confidence", JNum(0)))
         THEN (IF JGet(reply.value.v, "confidence", JNum(0)).t = "str"
               THEN "ValueError" ELSE "TypeError")
    ELSE "none"

\* Only the two exception types the except clause names first.
ClassifyCatchesNamedOnly == {"JSONDecodeError", "LLMClientError"}

\* except (json.JSONDecodeError, LLMClientError, Exception)
ClassifyCatches ==
    {"JSONDecodeError", "LLMClientError", "AttributeError", "ValueError", "TypeError"}

\* IntentClassifier.classify, given the oracle's reply to the prompt: the
\* record it returns, or the exception that leaves it.
classify(extracted_text, user_query, reply) ==
    LET e == TryException(reply)
    IN IF e = "none"
       THEN [raised |-> FALSE, value |-> ClassificationOf(reply.value.v)]
       ELSE IF e \in ClassifyCatches
       THEN [raised |-> FALSE, value |-> get_fallback_intent]
       ELSE [raised |-> TRUE, error |-> e]

\* ------------------------------------------------------------- task router

task_map ==
    {"text_extraction", "youtube_transcript", "summarization",
     "sentiment_analysis", "code_explanation", "qa", "unknown"}

UnknownMessage == "I'm not sure what you'd like me to do. Please provide more specific instructions."

\* Split on whitespace: number of maximal runs of non-whitespace characters.
WordCount(s) ==
    Cardinality({i \in 1..Len(s) :
        /\ s[i] \notin Whitespace
        /\ (i = 1 \/ s[i - 1] \in Whitespace)})

\* tasks.summarizer.summarize_text, by the outcome of its LLM call
summarize_text(text, backend) ==
    IF text = None
    THEN [one_line |-> "Error generating summary", bullets |-> 3, five_sentences |-> "failed",
          success |-> FALSE, error |-> "TypeError"]
    ELSE IF backend = "ok"
    THEN [one_line |-> "llm", bullets |-> 3, five_sentences |-> "llm", success |-> TRUE]
    ELSE [one_line |-> "Unable to generate structured summary", bullets |-> 3,
          five_sentences |-> "fallback", success |-> FALSE, error |-> "LLMClientError"]

\* tasks.sentiment.analyze_sentiment, by the outcome of the model call
analyze_sentiment(text, backend) ==
    IF backend # "ok"
    THEN [label |-> "UNKNOWN", confidence |-> 0, success |-> FALSE, error |-> "backend"]
    ELSE IF text = None
    THEN [label |-> "UNKNOWN", confidence |-> 0, success |-> FALSE, error |-> "TypeError"]
    ELSE IF strip(Prefix(text, SentimentPrefixLen)) = <<>>
    THEN [label |-> "NEUTRAL", confidence |-> 0, success |-> FALSE, error |-> "Empty text"]
    ELSE [label |-> "POSITIVE", confidence |-> 99, success |-> TRUE]

\* tasks.code_explainer.explain_code, by the outcome of its LLM call
explain_code(code_text, backend) ==
    IF backend = "ok"
    THEN [explanation |-> "llm", language |-> "llm", time_complexity |-> "llm",
          space_complexity |-> "llm", success |-> TRUE]
    ELSE [explanation |-> "Failed to parse code analysis response", language |-> "unknown",
          time_complexity |-> "O(?)", space_complexity |-> "O(?)",
          success |-> FALSE, error |-> "LLMClientError"]

\* tasks.qa_handler.answer_question, by the outcome of its LLM call
answer_question(question, context, backend) ==
    [answer |-> IF backend = "ok" THEN "llm" ELSE "apology",
     has_context |-> context # None,
     question |-> question,
     success |-> backend = "ok"]

handle_text_extraction(content, user_query) ==
    [result_type |-> "text_extraction",
     extracted_text |-> content,
     character_count |-> Len(content),
     word_count |-> WordCount(content),
     success |-> TRUE]

handle_youtube(content, user_query) ==
    [result_type |-> "youtube_transcript",
     transcript |-> content,
     note |-> "YouTube transcript has been extracted",
     success |-> TRUE]

handle_summarization(content, user_query, backend) ==
    LET summary_result == summarize_text(content, backend)
    IN [result_type |-> "summarization",
        summary |-> summary_result,
        success |-> summary_result.success]

handle_sentiment(content, user_query, backend) ==
    LET sentiment_result == analyze_sentiment(content, backend)
    IN [result_type |-> "sentiment_analysis",
        sentiment |-> sentiment_result,
        success |-> sentiment_result.success]

handle_code(content, user_query, backend) ==
    LET code_result == explain_code(content, backend)
    IN [result_type |-> "code_explanation",
        analysis |-> code_result,
        success |-> code_result.success]

\* The question substituted when there is no user query (a text of its own,
\* not a sequence of characters the model ever slices).
DefaultQuestion == <<"Can you help me understand this content?">>

handle_qa(content, user_query, backend) ==
    LET qa_result ==
            IF TruthyText(user_query)
            THEN answer_question(user_query, content, backend)
            ELSE answer_question(DefaultQuestion, content, backend)
    IN [result_type |-> "qa",
        response |-> qa_result,
        success |-> qa_result.success]

\* An unknown handler that would echo the whole content.
handle_unknown_full_preview(content, user_query) ==
    [result_type |-> "unknown",
     message |-> UnknownMessage,
     content_preview |-> content,
     success |-> FALSE]

\* TaskRouter._handle_unknown
handle_unknown(content, user_query) ==
    [result_type |-> "unknown",
     message |-> UnknownMessage,
     content_preview |-> Preview(content, UnknownPreviewLen),
     success |-> FALSE]

\* self.task_map.get(intent, self._handle_unknown): the key of the handler
LookupHandler(intent) ==
    IF intent.t = "str" /\ intent.v \in task_map THEN intent.v ELSE "unknown"

\* handler(content, user_query)
RunHandler(name, content, user_query, backend) ==
    CASE name = "text_extraction" -> handle_text_extraction(content, user_query)
      [] name = "youtube_transcript" -> handle_youtube(content, user_query)
      [] name = "summarization" -> handle_summarization(content, user_query, backend)
      [] name = "sentiment_analysis" -> handle_sentiment(content, user_query, backend)
      [] name = "code_explanation" -> handle_code(content, user_query, backend)
      [] name = "qa" -> handle_qa(content, user_query, backend)
      [] name = "unknown" -> handle_unknown(content, user_query)

\* The handlers that take len(content) raise TypeError on a content that is
\* None; the others pass it on or hand it to a task that catches everything.
HandlerRaises(name, content) ==
    content = None /\ name \in {"text_extraction", "unknown"}

\* result["task_type"] = handler's own label
SetTaskTypeToResultType(result, intent) ==
    ("task_type" :> JStr(result.result_type)) @@ result

\* result["task_type"] = intent
SetTaskType(result, intent) == ("task_type" :> intent) @@ result

\* f"Failed to execute {intent} task"
FailedMessage(intent) == <<"Failed to execute ", intent, " task">>

\* An except clause that would re-raise.
HandlerFailedPropagates(intent, name, e) == [raised |-> TRUE, error |-> e]

\* except Exception as e: return {...} (lines 51-58)
HandlerFailed(intent, name, e) ==
    [raised |-> FALSE,
     handler |-> name,
     result |-> [task_type |-> intent,
                 success |-> FALSE,
                 error |-> e,
                 message |-> FailedMessage(intent)]]

\* TaskRouter.execute: the lookup hashes the intent outside the try block, so
\* an unhashable intent raises TypeError to the caller.
execute(intent, content, user_query, backend) ==
    IF ~Hashable(intent)
    THEN [raised |-> TRUE, error |-> "TypeError"]
    ELSE LET name == LookupHandler(intent)
         IN IF HandlerRaises(name, content)
            THEN HandlerFailed(intent, name, "TypeError")
            ELSE [raised |-> FALSE,
                  handler |-> name,
                  result |-> SetTaskType(RunHandler(name, content, user_query, backend),
                                         intent)]

\* ------------------------------------------------------------- extractors

UpperToLower ==
    [c \in {"A", "B", "C", "D", "E", "F", "G", "H", "I", "J", "K", "L", "M",
            "N", "O", "P", "Q", "R", "S", "T", "U", "V", "W", "X", "Y", "Z"} |->
        CASE c = "A" -> "a" [] c = "B" -> "b" [] c = "C" -> "c" [] c = "D" -> "d"
          [] c = "E" -> "e" [] c = "F" -> "f" [] c = "G" -> "g" [] c = "H" -> "h"
          [] c = "I" -> "i" [] c = "J" -> "j" [] c = "K" -> "k" [] c = "L" -> "l"
          [] c = "M" -> "m" [] c = "N" -> "n" [] c = "O" -> "o" [] c = "P" -> "p"
          [] c = "Q" -> "q" [] c = "R" -> "r" [] c = "S" -> "s" [] c = "T" -> "t"
          [] c = "U" -> "u" [] c = "V" -> "v" [] c = "W" -> "w" [] c = "X" -> "x"
          [] c = "Y" -> "y" [] c = "Z" -> "z"]

LowerChar(c) == IF c \in DOMAIN UpperToLower THEN UpperToLower[c] ELSE c

\* str.lower()
lower(s) == [i \in 1..Len(s) |-> LowerChar(s[i])]

\* str.endswith(suffix)
endswith(s, suffix) ==
    /\ Len(suffix) <= Len(s)
    /\ SubSeq(s, Len(s) - Len(suffix) + 1, Len(s)) = suffix

ImageSuffixes ==
    {<<".", "p", "n", "g">>, <<".", "j", "p", "g">>, <<".", "j", "p", "e", "g">>,
     <<".", "b", "m", "p">>, <<".", "g", "i", "f">>}

PdfSuffixes == {<<".", "p", "d", "f">>}

AudioSuffixes ==
    {<<".", "m", "p", "3">>, <<".", "w", "a", "v">>, <<".", "m", "4", "a">>,
     <<".", "o", "g", "g">>, <<".", "f", "l", "a", "c">>}

\* The branch of process_input's file dispatch taken for a file name.
FileKind(filename) ==
    LET name == lower(filename)
    IN IF \E x \in ImageSuffixes : endswith(name, x) THEN "image"
       ELSE IF \E x \in PdfSuffixes : endswith(name, x) THEN "pdf"
       ELSE IF \E x \in AudioSuffixes : endswith(name, x) THEN "audio"
       ELSE "unsupported"

YoutubeNeedles ==
    {<<"y", "o", "u", "t", "u", "b", "e", ".", "c", "o", "m", "/", "w", "a", "t", "c", "h", "?", "v", "=">>,
     <<"y", "o", "u", "t", "u", ".", "b", "e", "/">>,
     <<"y", "o", "u", "t", "u", "b", "e", ".", "c", "o", "m", "/", "e", "m", "b", "e", "d", "/">>}

\* The needle matches the text at position i, ignoring case.
MatchAt(text, i, needle) ==
    /\ i + Len(needle) - 1 <= Len(text)
    /\ \A k \in 1..Len(needle) : LowerChar(text[i + k - 1]) = needle[k]

\* extractors.youtube_extractor.is_youtube_url: re.search of one of the three
\* host/path forms followed by at least one non-whitespace character (the
\* optional scheme and www. prefixes do not change whether a match exists).
is_youtube_url(text) ==
    \E i \in 1..Len(text) : \E needle \in YoutubeNeedles :
        /\ MatchAt(text, i, needle)
        /\ i + Len(needle) <= Len(text)
        /\ text[i + Len(needle)] \notin Whitespace

\* f"https://www.youtube.com/watch?v={...}"
CanonicalPrefix ==
    <<"h", "t", "t", "p", "s", ":", "/", "/", "w", "w", "w", ".", "y", "o", "u", "t", "u", "b", "e", ".", "c", "o", "m", "/", "w", "a", "t", "c", "h", "?", "v", "=">>

\* (https?://)? and (www\.)?: the optional prefixes of the pattern
Schemes == {<<>>, <<"h", "t", "t", "p", ":", "/", "/">>, <<"h", "t", "t", "p", "s", ":", "/", "/">>}
WwwPrefixes == {<<>>, <<"w", "w", "w", ".">>}

\* [^\s&]: a character of the identifier group
IdChar(c) == c \notin Whitespace /\ c # "&"

\* The pattern of extract_youtube_url matches at position i with these
\* prefixes and this host form, and at least one identifier character.
PatternAt(text, i, scheme, www, needle) ==
    LET k == i + Len(scheme) + Len(www) + Len(needle)
    IN /\ MatchAt(text, i, scheme)
       /\ MatchAt(text, i + Len(scheme), www)
       /\ MatchAt(text, i + Len(scheme) + Len(www), needle)
       /\ k <= Len(text)
       /\ IdChar(text[k])

\* Every way the pattern matches somewhere in the text.
PatternMatches(text) ==
    {m \in [start : 1..Len(text), scheme : Schemes, www : WwwPrefixes,
            needle : YoutubeNeedles] :
        PatternAt(text, m.start, m.scheme, m.www, m.needle)}

\* re.search: the leftmost match, the optional groups taken when they can be.
FirstMatch(text) ==
    CHOOSE m \in PatternMatches(text) :
        \A n \in PatternMatches(text) :
            \/ m.start < n.start
            \/ /\ m.start = n.start
               /\ Len(m.scheme) + Len(m.www) >= Len(n.scheme) + Len(n.www)

\* [^\s&]+ is greedy: the identifier runs to the last character before a
\* whitespace, an ampersand or the end of the text.
IdEnd(text, k) ==
    CHOOSE e \in k..Len(text) :
        /\ \A j \in k..e : IdChar(text[j])
        /\ e = Len(text) \/ ~IdChar(text[e + 1])

\* needle in s, case-sensitive
Contains(s, needle) ==
    \E i \in 1..(Len(s) - Len(needle) + 1) : SubSeq(s, i, i + Len(needle) - 1) = needle

\* s.startswith(prefix)
startswith(s, prefix) ==
    Len(s) >= Len(prefix) /\ SubSeq(s, 1, Len(prefix)) = prefix

\* extractors.youtube_extractor.extract_youtube_url
extract_youtube_url(text) ==
    IF PatternMatches(text) = {}
    THEN <<>>
    ELSE LET m == FirstMatch(text)
             k == m.start + Len(m.scheme) + Len(m.www) + Len(m.needle)
             e == IdEnd(text, k)
             group0 == SubSeq(text, m.start, e)
             group4 == SubSeq(text, k, e)
         IN IF Contains(group0, <<"y", "o", "u", "t", "u", ".", "b", "e">>)
            THEN CanonicalPrefix \o group4
            ELSE IF startswith(group0, <<"h", "t", "t", "p">>)
            THEN group0
            ELSE <<"h", "t", "t", "p", "s", ":", "/", "/">> \o group0

\* ------------------------------------------------------------------ inputs

Clients == {"u1", "u2"}

SessionIds == {"default", "s1"}

\* The session_id form field as the caller sends it.
Omitted == "<omitted>"
SessionParams == {Omitted, "s1"}

\* session_id: Optional[str] = Form("default")
SessionOf(param) == IF param = Omitted THEN "default" ELSE param

TShort == <<"a", "b", "c", "d">>
TMin == <<"h", "e", "l", "l", "o">>
TPadShort == <<" ", "a", "b", "c", "d", "\n">>
TPadMin == <<" ", "w", "o", "r", "l", "d", " ">>
TLong == Rep("x", SuccessPreviewLen + 1)
TYoutube == <<"s", "e", "e", " ", "Y", "o", "u", "t", "u", ".", "b", "e", "/", "a", "1">>
TOcr == <<"o", "c", "r", "e", "d">>
TPdf == <<"p", "a", "g", "e", "s">>
TAudio == <<"s", "p", "o", "k", "e", "n">>
TTranscript == <<"Y", "o", "u", "T", "u", "b", "e", " ", "V", "i", "d", "e", "o">>
TNoTranscript == <<"N", "o", " ", "t", "r", "a", "n", "s", "c", "r", "i", "p", "t">>
TClarification == <<"s", "u", "m", " ", "i", "t">>

NoFile == None
PngName == <<"A", ".", "P", "N", "G">>
PdfName == <<"a", ".", "p", "d", "f">>
Mp3Name == <<"a", ".", "m", "p", "3">>
TxtName == <<"a", ".", "t", "x", "t">>

\* The (text, file) pairs a /process request may carry.
ProcessInputs ==
    {[text |-> None, file |-> NoFile],
     [text |-> <<>>, file |-> NoFile],
     [text |-> TShort, file |-> NoFile],
     [text |-> TMin, file |-> NoFile],
     [text |-> TPadShort, file |-> NoFile],
     [text |-> TPadMin, file |-> NoFile],
     [text |-> TLong, file |-> NoFile],
     [text |-> TYoutube, file |-> NoFile],
     [text |-> None, file |-> PngName],
     [text |-> TMin, file |-> PdfName],
     [text |-> None, file |-> Mp3Name],
     [text |-> None, file |-> TxtName]}

Clarifications == {TClarification}

\* What the extraction backends may return.
ImageResults ==
    {[text |-> TOcr, confidence |-> 91, method |-> "tesseract_ocr", success |-> TRUE],
     [text |-> <<>>, confidence |-> 0, method |-> "tesseract_ocr", success |-> TRUE],
     [text |-> <<>>, confidence |-> 0, method |-> "tesseract_ocr", success |-> FALSE]}

PdfResults ==
    {[text |-> TPdf, pages |-> 2, method |-> "text_extraction", success |-> TRUE],
     [text |-> <<>>, pages |-> 0, method |-> "failed", success |-> FALSE]}

AudioResults ==
    {[text |-> TAudio, language |-> "en", duration |-> 3, success |-> TRUE],
     [text |-> <<>>, language |-> "unknown", duration |-> 0, success |-> FALSE]}

YoutubeResults ==
    {[text |-> TTranscript, title |-> "title", duration |-> 10, success |-> TRUE],
     [text |-> TNoTranscript, title |-> "title", duration |-> 10, success |-> FALSE],
     [text |-> <<>>, title |-> "", duration |-> 0, success |-> FALSE]}

\* A JSON object reply of the oracle with all five fields.
Reply(intent, confidence, needs, question) ==
    [kind |-> "json",
     value |-> JObj([intent |-> intent,
                     confidence |-> confidence,
                     needs_clarification |-> needs,
                     clarification_question |-> question,
                     reasoning |-> JStr("because")])]

\* What the classification oracle (call_llm) may do: fail, return text that
\* is not JSON, or return JSON of any shape.
OracleReplies ==
    {[kind |-> "error"],
     [kind |-> "text"],
     [kind |-> "json", value |-> JList(1)],
     [kind |-> "json", value |-> JObj(<<>>)],
     Reply(JStr("text_extraction"), JNum(90), JBool(FALSE), JNull),
     Reply(JStr("youtube_transcript"), JNum(90), JBool(FALSE), JNull),
     Reply(JStr("summarization"), JNum(90), JBool(FALSE), JNull),
     Reply(JStr("sentiment_analysis"), JStr("0.8"), JBool(FALSE), JNull),
     Reply(JStr("code_explanation"), JNum(90), JBool(FALSE), JNull),
     Reply(JStr("qa"), JNum(90), JBool(FALSE), JNull),
     Reply(JStr("unknown"), JNum(0), JBool(FALSE), JNull),
     Reply(JStr("translate"), JNum(70), JBool(FALSE), JNull),
     Reply(JNull, JNum(50), JBool(FALSE), JNull),
     Reply(JList(1), JNum(50), JBool(FALSE), JNull),
     Reply(JStr("qa"), JNum(40), JBool(TRUE), JStr("Which task?")),
     Reply(JStr("unknown"), JNum(10), JBool(TRUE), JNull),
     Reply(JStr("summarization"), JNum(90), JStr("false"), JNull),
     Reply(JStr("summarization"), JStr("high"), JBool(FALSE), JNull),
     Reply(JStr("summarization"), JNull, JBool(FALSE), JNull)}

\* Outcome of the external call a task handler makes.
Backends == {"ok", "error"}

\* The inputs and oracle replies of the request protocol's specification: one
\* of each kind of outcome the protocol distinguishes.
ProtocolInputs ==
    {[text |-> None, file |-> NoFile],
     [text |-> TPadShort, file |-> NoFile],
     [text |-> TPadMin, file |-> NoFile],
     [text |-> None, file |-> PngName],
     [text |-> None, file |-> TxtName]}

ProtocolImageResults == {r \in ImageResults : r.success => r.text # <<>>}

ProtocolReplies ==
    {[kind |-> "error"],
     [kind |-> "text"],
     [kind |-> "json", value |-> JList(1)],
     Reply(JStr("summarization"), JNum(90), JBool(FALSE), JNull),
     Reply(JStr("translate"), JNum(70), JBool(FALSE), JNull),
     Reply(JList(1), JNum(50), JBool(FALSE), JNull),
     Reply(JStr("qa"), JNum(40), JBool(TRUE), JStr("Which task?")),
     Reply(JStr("unknown"), JNum(10), JBool(TRUE), JNull)}

\* ------------------------------------------------------------------- state

VARIABLES
    conversation_contexts,  \* app.py: the module-level dict, session id -> context
    req,                    \* per client: the request in flight, its handler's locals, its response
    running,                \* the client whose handler holds the event loop, or "none"
    nreq,                   \* requests submitted so far
    lastOn,                 \* history: per session id, the last request answered on it
    served,                 \* history: per session id, successes served from the stored context
    pending,                \* history: per session id, what the last unresolved asking /process extracted
    alone,                  \* history: per client, the store its own requests alone would give
    call                    \* a single call of classify or execute, its arguments and result

vars == <<conversation_contexts, req, running, nreq, lastOn, served, pending, alone, call>>

\* conversation_contexts.get(session_id) returning None
NoContext == [none |-> TRUE]

\* extraction_metadata = {}
EmptyMeta == <<>>

NoResult == [none |-> TRUE]

Idle == [kind |-> "idle", pc |-> "idle"]

\* A stored record that would drop the extraction metadata.
ContextMissingMetadata(extracted_content, extraction_metadata) ==
    [extracted_content |-> extracted_content,
     extraction_metadata |-> EmptyMeta]

\* The record stored under a session id (app.py lines 260-263).
Context(extracted_content, extraction_metadata) ==
    [extracted_content |-> extracted_content,
     extraction_metadata |-> extraction_metadata]

\* raise HTTPException(status_code=400, detail=...)
Http400(detail) == [http |-> 400, detail |-> detail]

\* The response body's status field, "none" when there is none.
StatusOf(r) == IF "status" \in DOMAIN r THEN r.status ELSE "none"

SessionExpired == "Session expired or invalid. Please resubmit your input."

InsufficientMessage == "Could not extract meaningful content from input"

\* A length check that would forget to trim.
InsufficientUntrimmed(extracted_content) ==
    extracted_content = <<>> \/ Len(extracted_content) < MinContentLen

\* not extracted_content or len(extracted_content.strip()) < 5
Insufficient(extracted_content) ==
    extracted_content = <<>> \/ Len(strip(extracted_content)) < MinContentLen

\* The extraction backend the request reaches and what it may return.
ExtractionResults(text, file) ==
    IF file # NoFile
    THEN CASE FileKind(file) = "image" -> ImageResults
           [] FileKind(file) = "pdf" -> PdfResults
           [] FileKind(file) = "audio" -> AudioResults
           [] OTHER -> {NoResult}
    ELSE IF TruthyText(text) /\ is_youtube_url(text) THEN YoutubeResults
    ELSE {NoResult}

Extracted(content, meta, logs) ==
    [raised |-> FALSE, extracted_content |-> content,
     extraction_metadata |-> meta, logs |-> logs]

ExtractionFailed(detail, logs) == [raised |-> TRUE, detail |-> detail, logs |-> logs]

\* A fallback that would fail the request like the file extractors do.
YoutubeFallbackFails(text, result) ==
    ExtractionFailed("YouTube extraction failed",
                     <<"Detected YouTube URL, fetching transcript...",
                       "YouTube transcript unavailable">>)

\* else branch of result.get("success") for a YouTube URL (lines 209-214)
YoutubeFallback(text, result) ==
    Extracted(text, [type |-> "text"],
              <<"Detected YouTube URL, fetching transcript...",
                "YouTube transcript unavailable">>)

\* STEP 1 of process_input (lines 118-225), by the backend's result.
Extraction(text, file, result) ==
    IF file # NoFile
    THEN CASE FileKind(file) = "image" ->
                IF result.success
                THEN Extracted(result.text,
                               [type |-> "image", method |-> result.method,
                                confidence |-> result.confidence],
                               <<"Received file", "Extracting text from image using OCR...",
                                 "OCR completed">>)
                ELSE ExtractionFailed("Image extraction failed",
                               <<"Received file", "Extracting text from image using OCR...",
                                 "OCR failed">>)
           [] FileKind(file) = "pdf" ->
                IF result.success
                THEN Extracted(result.text,
                               [type |-> "pdf", method |-> result.method,
                                pages |-> result.pages],
                               <<"Received file", "Extracting text from PDF...",
                                 "PDF extraction completed">>)
                ELSE ExtractionFailed("PDF extraction failed",
                               <<"Received file", "Extracting text from PDF...",
                                 "PDF extraction failed">>)
           [] FileKind(file) = "audio" ->
                IF result.success
                THEN Extracted(result.text,
                               [type |-> "audio", language |-> result.language,
                                duration |-> result.duration],
                               <<"Received file", "Transcribing audio using Whisper...",
                                 "Audio transcribed">>)
                ELSE ExtractionFailed("Audio transcription failed",
                               <<"Received file", "Transcribing audio using Whisper...",
                                 "Audio transcription failed">>)
           [] OTHER ->
                ExtractionFailed("Unsupported file type",
                               <<"Received file", "Unsupported file type">>)
    ELSE IF TruthyText(text)
    THEN IF is_youtube_url(text)
         THEN IF result.success
              THEN Extracted(result.text,
                             [type |-> "youtube", title |-> result.title,
                              duration |-> result.duration],
                             <<"Detected YouTube URL, fetching transcript...",
                               "YouTube transcript fetched">>)
              ELSE YoutubeFallback(text, result)
         ELSE Extracted(text, [type |-> "text"], <<"Processing text input...">>)
    ELSE ExtractionFailed("No input provided (text or file required)",
                          <<"No input provided">>)

\* ---------------------------------------------------------------- handlers

\* What a handler run leaves behind: its response, the store, and its locals.
Outcome(response, contexts, content, meta, context, intent_result, final_result, logs, calls) ==
    [response |-> response,
     contexts |-> contexts,
     extracted_content |-> content,
     extraction_metadata |-> meta,
     context |-> context,
     intent_result |-> intent_result,
     final_result |-> final_result,
     logs |-> logs,
     calls |-> calls]

ClassifyCall(extracted_content, user_query) ==
    [fn |-> "classify", prompt |-> Prompt(extracted_content, user_query)]

ExecuteCall(intent, content, user_query) ==
    [fn |-> "execute", intent |-> intent, content |-> content, user_query |-> user_query]

\* A catch-all response that would drop the step log.
ServerErrorWithoutLogs(message, logs) ==
    [http |-> 500, status |-> "error", message |-> message, logs |-> <<>>]

\* except Exception as e: the catch-all response (lines 320-325, 407-412).
ServerError(message, logs) ==
    [http |-> 500, status |-> "error", message |-> message,
     logs |-> Append(logs, "Error")]

\* A store that would keep an entry the session already has.
StoreContextIfAbsent(contexts, session_id, extracted_content, extraction_metadata) ==
    IF contexts[session_id] = NoContext
    THEN [contexts EXCEPT ![session_id] = [extracted_content |-> extracted_content,
                                           extraction_metadata |-> extraction_metadata]]
    ELSE contexts

\* conversation_contexts[session_id] = {...}
StoreContext(contexts, session_id, extracted_content, extraction_metadata) ==
    [contexts EXCEPT ![session_id] = Context(extracted_content, extraction_metadata)]

\* A lookup that would fall back to the entry of the default session.
GetContextOrDefault(contexts, session_id) ==
    IF contexts[session_id] = NoContext THEN contexts["default"] ELSE contexts[session_id]

\* conversation_contexts.get(session_id)
GetContext(contexts, session_id) == contexts[session_id]

\* A clean-up that would leave the entry in place.
CleanUpSkipped(contexts, session_id) == contexts

\* A clean-up that would clear every session's entry.
CleanUpAll(contexts, session_id) == [s \in DOMAIN contexts |-> NoContext]

\* if session_id in conversation_contexts: del conversation_contexts[session_id]
CleanUp(contexts, session_id) == [contexts EXCEPT ![session_id] = NoContext]

\* An insufficient-content return that would also drop the session's context.
InsufficientContentResetting(contexts, session_id, content, meta, logs1) ==
    LET logs == Append(logs1, "Warning: Very little content extracted")
    IN Outcome([http |-> 200, status |-> "error",
                message |-> InsufficientMessage, logs |-> logs],
               [contexts EXCEPT ![session_id] = NoContext], content, meta, NoContext,
               NoResult, NoResult, logs, <<>>)

\* The return of lines 228-236: nothing is classified, nothing is stored.
InsufficientContent(contexts, session_id, content, meta, logs1) ==
    LET logs == Append(logs1, "Warning: Very little content extracted")
    IN Outcome([http |-> 200, status |-> "error",
                message |-> InsufficientMessage, logs |-> logs],
               contexts, content, meta, NoContext, NoResult, NoResult, logs, <<>>)

\* An envelope that would report the task's failure as its own status.
EnvelopeStatusOfTask(final_result) ==
    IF final_result.success THEN "success" ELSE "error"

\* "status": "success" (lines 301, 389), whatever the task result says
EnvelopeStatus(final_result) == "success"

\* process_input (lines 106-325) from entry to its return or raise, given the
\* store and what the extraction backend, the oracle and the task backend do.
process_input(text, file, session_id, contexts, result, reply, backend) ==
    LET x == Extraction(text, file, result)
        logs1 == <<"Processing your request...">> \o x.logs
    IN IF x.raised
       THEN Outcome(Http400(x.detail), contexts, <<>>, EmptyMeta, NoContext,
                    NoResult, NoResult, logs1, <<>>)
       ELSE IF Insufficient(x.extracted_content)
       THEN InsufficientContent(contexts, session_id, x.extracted_content,
                                x.extraction_metadata, logs1)
       ELSE
         LET content == x.extracted_content
             meta == x.extraction_metadata
             c == classify(content, text, reply)
             intent_result == c.value
             calls2 == <<ClassifyCall(content, text)>>
             logs2 == logs1 \o <<"Analyzing your intent...",
                         IF intent_result.success THEN "Intent identified"
                         ELSE "Intent classification failed, requesting clarification">>
         IN IF c.raised
            THEN LET logs == Append(logs1, "Analyzing your intent...")
                 IN Outcome(ServerError(c.error, logs), contexts, content, meta,
                            NoContext, NoResult, NoResult, Append(logs, "Error"), calls2)
            ELSE IF intent_result.needs_clarification
            THEN LET logs == Append(logs2, "Clarification needed from user")
                 IN Outcome([http |-> 200,
                             status |-> "needs_clarification",
                             extracted_content |-> Preview(content, ClarifyPreviewLen),
                             extraction_metadata |-> meta,
                             question |-> intent_result.clarification_question,
                             reasoning |-> intent_result.reasoning,
                             logs |-> logs,
                             session_id |-> session_id],
                            StoreContext(contexts, session_id, content, meta),
                            content, meta, NoContext, intent_result, NoResult, logs, calls2)
            ELSE
              LET ex == execute(intent_result.intent, content, text, backend)
                  calls3 == Append(calls2, ExecuteCall(intent_result.intent, content, text))
                  logs3 == Append(logs2, "Executing task")
              IN IF ex.raised
                 THEN Outcome(ServerError(ex.error, logs3), contexts, content, meta,
                              NoContext, intent_result, NoResult,
                              Append(logs3, "Error"), calls3)
                 ELSE LET logs == Append(logs3, IF ex.result.success
                                                THEN "Task completed successfully"
                                                ELSE "Task completed with warnings")
                      IN Outcome([http |-> 200,
                                  status |-> EnvelopeStatus(ex.result),
                                  extracted_content |-> Preview(content, SuccessPreviewLen),
                                  extraction_metadata |-> meta,
                                  intent |-> [type |-> intent_result.intent,
                                              confidence |-> intent_result.confidence,
                                              reasoning |-> intent_result.reasoning],
                                  result |-> ex.result,
                                  logs |-> logs],
                                 contexts, content, meta, NoContext, intent_result,
                                 ex.result, logs, calls3)

\* clarify_intent (lines 342-412) from entry to its return or raise.
clarify_intent(clarification, session_id, contexts, reply, backend) ==
    LET context == GetContext(contexts, session_id)
        logs0 == <<"Processing your clarification...">>
    IN IF context = NoContext
       THEN Outcome(Http400(SessionExpired), contexts, <<>>, EmptyMeta, NoContext,
                    NoResult, NoResult, Append(logs0, "Session context not found"), <<>>)
       ELSE
         LET content == context.extracted_content
             meta == context.extraction_metadata
             logs1 == Append(logs0, "Re-analyzing intent with your clarification...")
             c == classify(content, clarification, reply)
             intent_result == c.value
             calls1 == <<ClassifyCall(content, clarification)>>
         IN IF c.raised
            THEN Outcome(ServerError(c.error, logs1), contexts, content, meta,
                         context, NoResult, NoResult, Append(logs1, "Error"), calls1)
            ELSE IF intent_result.needs_clarification
            THEN LET logs == Append(logs1, "Still need more clarification")
                 IN Outcome([http |-> 200,
                             status |-> "needs_clarification",
                             question |-> intent_result.clarification_question,
                             logs |-> logs],
                            contexts, content, meta, context, intent_result, NoResult,
                            logs, calls1)
            ELSE
              LET ex == execute(intent_result.intent, content, clarification, backend)
                  calls2 == Append(calls1,
                                ExecuteCall(intent_result.intent, content, clarification))
                  logs2 == logs1 \o <<"Intent clarified", "Executing task">>
              IN IF ex.raised
                 THEN Outcome(ServerError(ex.error, logs2), contexts, content, meta,
                              context, intent_result, NoResult,
                              Append(logs2, "Error"), calls2)
                 ELSE LET logs == IF ex.result.success
                                  THEN Append(logs2, "Task completed successfully")
                                  ELSE logs2
                      IN Outcome([http |-> 200,
                                  status |-> EnvelopeStatus(ex.result),
                                  extracted_content |-> Preview(content, SuccessPreviewLen),
                                  extraction_metadata |-> meta,
                                  intent |-> [type |-> intent_result.intent,
                                              confidence |-> intent_result.confidence],
                                  result |-> ex.result,
                                  logs |-> logs],
                                 CleanUp(contexts, session_id), content, meta, context,
                                 intent_result, ex.result, logs, calls2)

\* ----------------------------------------------------------------- actions

NothingAsked == [asked |-> FALSE]

Init ==
    /\ conversation_contexts = [s \in SessionIds |-> NoContext]
    /\ req = [u \in Clients |-> Idle]
    /\ running = "none"
    /\ nreq = 0
    /\ lastOn = [s \in SessionIds |-> NothingAsked]
    /\ served = [s \in SessionIds |-> 0]
    /\ pending = [s \in SessionIds |-> NoContext]
    /\ alone = [u \in Clients |-> [s \in SessionIds |-> NoContext]]
    /\ call = NoResult

\* The request of a handler that has returned, with the handler's locals and
\* the reply the oracle has for it.
Responded(kind, session_id, text, file, reply, o, alone_response) ==
    [kind |-> kind,
     pc |-> "respond",
     session_id |-> session_id,
     text |-> text,
     file |-> file,
     oracle |-> reply,
     extracted_content |-> o.extracted_content,
     extraction_metadata |-> o.extraction_metadata,
     context |-> o.context,
     intent_result |-> o.intent_result,
     final_result |-> o.final_result,
     logs |-> o.logs,
     calls |-> o.calls,
     response |-> o.response,
     alone_response |-> alone_response]

\* A client sends POST /process; the server accepts the request.
SubmitProcess(u) ==
    /\ req[u].pc = "idle"
    /\ nreq < MaxRequests
    /\ \E param \in SessionParams :
          req' = [req EXCEPT ![u] =
                     [kind |-> "process", pc |-> "start", session_id |-> SessionOf(param)]]
    /\ nreq' = nreq + 1
    /\ UNCHANGED <<conversation_contexts, running, lastOn, served, pending, alone, call>>

\* A client sends POST /clarify; the server accepts the request.
SubmitClarify(u) ==
    /\ req[u].pc = "idle"
    /\ nreq < MaxRequests
    /\ \E param \in SessionParams :
          req' = [req EXCEPT ![u] =
                     [kind |-> "clarify", pc |-> "start", session_id |-> SessionOf(param)]]
    /\ nreq' = nreq + 1
    /\ UNCHANGED <<conversation_contexts, running, lastOn, served, pending, alone, call>>

\* The event loop runs process_input from `from` to its return: one step,
\* because nothing after the upload's read awaits.
RunProcess(u, text, file) ==
    \E result \in ExtractionResults(text, file) \ (ImageResults \ ProtocolImageResults),
       reply \in ProtocolReplies, backend \in Backends :
        LET s == req[u].session_id
            o == process_input(text, file, s, conversation_contexts, result, reply, backend)
            a == process_input(text, file, s, alone[u], result, reply, backend)
        IN /\ req' = [req EXCEPT ![u] = Responded("process", s, text, file, reply, o, a.response)]
           /\ conversation_contexts' = o.contexts
           /\ served' = IF StatusOf(o.response) = "needs_clarification"
                        THEN [served EXCEPT ![s] = 0]
                        ELSE served
           /\ pending' = IF StatusOf(req'[u].response) = "needs_clarification"
                         THEN [pending EXCEPT ![s] =
                                  [extracted_content |-> req'[u].extracted_content,
                                   extraction_metadata |-> req'[u].extraction_metadata]]
                         ELSE pending
           /\ running' = u
           /\ UNCHANGED <<nreq, lastOn, alone, call>>

\* process_input is called with the parsed form. With an upload it suspends
\* at `await file.read()` (line 119) and the event loop is free again.
ProcessStart(u) ==
    /\ req[u].pc = "start"
    /\ req[u].kind = "process"
    /\ running = "none"
    /\ \E in \in ProtocolInputs :
          IF in.file # NoFile
          THEN /\ req' = [req EXCEPT ![u] =
                              [kind |-> "process", pc |-> "reading",
                               session_id |-> req[u].session_id,
                               text |-> in.text, file |-> in.file]]
               /\ UNCHANGED <<conversation_contexts, running, nreq, lastOn, served, pending, alone, call>>
          ELSE RunProcess(u, in.text, in.file)

\* process_input resumes after the upload's read and runs to its return.
ProcessResume(u) ==
    /\ req[u].pc = "reading"
    /\ running = "none"
    /\ RunProcess(u, req[u].text, req[u].file)

\* clarify_intent runs from entry to its return: one step, it never awaits.
ClarifyRun(u) ==
    /\ req[u].pc = "start"
    /\ req[u].kind = "clarify"
    /\ running = "none"
    /\ \E clarification \in Clarifications, reply \in ProtocolReplies, backend \in Backends :
          LET s == req[u].session_id
              o == clarify_intent(clarification, s, conversation_contexts, reply, backend)
              a == clarify_intent(clarification, s, alone[u], reply, backend)
          IN /\ req' = [req EXCEPT ![u] =
                           Responded("clarify", s, clarification, NoFile, reply, o, a.response)]
             /\ conversation_contexts' = o.contexts
             /\ served' = IF StatusOf(o.response) = "success"
                          THEN [served EXCEPT ![s] = @ + 1]
                          ELSE served
             /\ pending' = IF StatusOf(req'[u].response) = "success"
                           THEN [pending EXCEPT ![s] = NoContext]
                           ELSE pending
             /\ running' = u
             /\ UNCHANGED <<nreq, lastOn, alone, call>>

\* The response is sent (for an HTTPException, by the framework) and the
\* event loop is free.
Return(u) ==
    /\ req[u].pc = "respond"
    /\ running = u
    /\ LET r == req[u]
           s == r.session_id
           status == StatusOf(r.response)
       IN /\ lastOn' = [lastOn EXCEPT ![s] =
                IF r.kind = "process" /\ status = "needs_clarification"
                THEN [asked |-> TRUE,
                      extracted_content |-> r.extracted_content,
                      extraction_metadata |-> r.extraction_metadata]
                ELSE NothingAsked]
          /\ alone' =
                IF r.kind = "process" /\ status = "needs_clarification"
                THEN [alone EXCEPT ![u][s] =
                         Context(r.extracted_content, r.extraction_metadata)]
                ELSE IF r.kind = "clarify" /\ status = "success"
                THEN [alone EXCEPT ![u][s] = NoContext]
                ELSE alone
    /\ req' = [req EXCEPT ![u] = Idle]
    /\ running' = "none"
    /\ UNCHANGED <<conversation_contexts, nreq, served, pending, call>>

Next ==
    \E u \in Clients :
        \/ SubmitProcess(u)
        \/ SubmitClarify(u)
        \/ ProcessStart(u)
        \/ ProcessResume(u)
        \/ ClarifyRun(u)
        \/ Return(u)

Spec == Init /\ [][Next]_vars

\* The event loop takes a step whenever some handler is ready to run or to
\* send its response; inside a handler every call returns (the oracle's
\* request carries timeout=60, and a timeout is one of its errors). Clients
\* are under no obligation to send anything.
ServerStep ==
    \E u \in Clients :
        ProcessStart(u) \/ ProcessResume(u) \/ ClarifyRun(u) \/ Return(u)

Fairness == WF_vars(ServerStep)

SpecLive == Spec /\ Fairness

\* ------------------------------------------- single calls of the components

T200 == Rep("y", UnknownPreviewLen)
T201 == Rep("z", UnknownPreviewLen + 1)

ClassifierTexts == {TMin, TLong}

Queries == {None, <<>>, TClarification}

\* Intent values execute may be handed: labels in and outside the table,
\* and JSON values that are not strings.
RouterIntents ==
    {JStr(k) : k \in task_map}
        \cup {JStr("translate"), JStr("Unknown"), JStr(""), JNull, JNum(1), JBool(TRUE),
              JList(1), JObj(<<>>)}

RouterContents == {TMin, T200, T201, TLong}

\* Protocol variables at rest while a single component is called.
ProtocolAtRest ==
    /\ conversation_contexts = [s \in SessionIds |-> NoContext]
    /\ req = [u \in Clients |-> Idle]
    /\ running = "none"
    /\ nreq = 0
    /\ lastOn = [s \in SessionIds |-> NothingAsked]
    /\ served = [s \in SessionIds |-> 0]
    /\ pending = [s \in SessionIds |-> NoContext]
    /\ alone = [u \in Clients |-> [s \in SessionIds |-> NoContext]]

ProtocolUnchanged ==
    UNCHANGED <<conversation_contexts, req, running, nreq, lastOn, served, pending, alone>>

\* classify is called with any text, any query and any oracle behaviour.
InitClassifier ==
    /\ ProtocolAtRest
    /\ call \in {[fn |-> "classify", pc |-> "called", extracted_text |-> t,
                  user_query |-> q, reply |-> r, result |-> NoResult] :
                    t \in ClassifierTexts, q \in Queries, r \in OracleReplies}

ClassifyReturns ==
    /\ call.pc = "called"
    /\ call.fn = "classify"
    /\ call' = [call EXCEPT !.pc = "returned",
                            !.result = classify(call.extracted_text, call.user_query,
                                                call.reply)]
    /\ ProtocolUnchanged

NextClassifier == ClassifyReturns

SpecClassifier == InitClassifier /\ [][NextClassifier]_vars

\* execute is called with any intent value, content, query and backend outcome.
InitRouter ==
    /\ ProtocolAtRest
    /\ call \in {[fn |-> "execute", pc |-> "called", intent |-> i, content |-> c,
                  user_query |-> q, backend |-> b, result |-> NoResult] :
                    i \in RouterIntents, c \in RouterContents, q \in Queries,
                    b \in Backends}

ExecuteReturns ==
    /\ call.pc = "called"
    /\ call.fn = "execute"
    /\ call' = [call EXCEPT !.pc = "returned",
                            !.result = execute(call.intent, call.content,
                                               call.user_query, call.backend)]
    /\ ProtocolUnchanged

NextRouter == ExecuteReturns

SpecRouter == InitRouter /\ [][NextRouter]_vars

\* execute is also called with a content that is None, and called again
\* after a call whose handler raised.
FaultContents == {TMin, None}

InitRouterFaults ==
    /\ ProtocolAtRest
    /\ call \in {[fn |-> "execute", pc |-> "called", intent |-> i, content |-> c,
                  user_query |-> q, backend |-> b, result |-> NoResult] :
                    i \in RouterIntents, c \in FaultContents, q \in Queries,
                    b \in Backends}

ExecuteAgain ==
    /\ call.pc = "returned"
    /\ call.fn = "execute"
    /\ ~call.result.raised
    /\ "error" \in DOMAIN call.result.result
    /\ \E i \in RouterIntents, c \in FaultContents, b \in Backends :
          call' = [fn |-> "execute", pc |-> "called", intent |-> i, content |-> c,
                   user_query |-> None, backend |-> b, result |-> NoResult,
                   failed_before |-> call.result.handler]
    /\ ProtocolUnchanged

NextRouterFaults == ExecuteReturns \/ ExecuteAgain

SpecRouterFaults == InitRouterFaults /\ [][NextRouterFaults]_vars

\* One request handler is called on a store other requests may have filled,
\* with any input, extraction result, oracle reply and task backend outcome.
StoredContexts ==
    {[s \in SessionIds |-> NoContext],
     [s \in SessionIds |->
         IF s = "default" THEN Context(TPadMin, [type |-> "text"]) ELSE NoContext],
     [s \in SessionIds |->
         Context(TOcr, [type |-> "image", method |-> "tesseract_ocr", confidence |-> 91])]}

InitHandlers ==
    /\ ProtocolAtRest
    /\ \/ \E in \in ProcessInputs, s \in SessionIds, st \in StoredContexts,
             r \in OracleReplies, b \in Backends :
             \E x \in ExtractionResults(in.text, in.file) :
                call = [fn |-> "process_input", pc |-> "called", text |-> in.text,
                        file |-> in.file, session_id |-> s, contexts |-> st,
                        extraction |-> x, reply |-> r, backend |-> b,
                        result |-> NoResult]
       \/ \E c \in Clarifications, s \in SessionIds, st \in StoredContexts,
             r \in OracleReplies, b \in Backends :
                call = [fn |-> "clarify_intent", pc |-> "called", clarification |-> c,
                        session_id |-> s, contexts |-> st, reply |-> r, backend |-> b,
                        result |-> NoResult]

ProcessReturns ==
    /\ call.pc = "called"
    /\ call.fn = "process_input"
    /\ call' = [call EXCEPT !.pc = "returned",
                            !.result = process_input(call.text, call.file, call.session_id,
                                                     call.contexts, call.extraction,
                                                     call.reply, call.backend)]
    /\ ProtocolUnchanged

ClarifyReturns ==
    /\ call.pc = "called"
    /\ call.fn = "clarify_intent"
    /\ call' = [call EXCEPT !.pc = "returned",
                            !.result = clarify_intent(call.clarification, call.session_id,
                                                      call.contexts, call.reply,
                                                      call.backend)]
    /\ ProtocolUnchanged

NextHandlers == ProcessReturns \/ ClarifyReturns

SpecHandlers == InitHandlers /\ [][NextHandlers]_vars

\* The URL helpers are called on texts put together from a lead-in, the
\* optional scheme and www. prefix, a host form, an identifier and what
\* follows it in the sentence.
LeadIns == {<<>>, <<"W", "a", "t", "c", "h", " ">>}

WatchHost == <<"y", "o", "u", "t", "u", "b", "e", ".", "c", "o", "m", "/", "w", "a", "t", "c", "h", "?", "v", "=">>
ShortHost == <<"y", "o", "u", "t", "u", ".", "b", "e", "/">>
EmbedHost == <<"y", "o", "u", "t", "u", "b", "e", ".", "c", "o", "m", "/", "e", "m", "b", "e", "d", "/">>
ShoutedShortHost == <<"Y", "O", "U", "T", "U", ".", "B", "E", "/">>
OtherHosts == {<<"g", "o", "o", "g", "l", "e", ".", "c", "o", "m", "/">>, <<"v", "i", "m", "e", "o", ".", "c", "o", "m", "/", "w", "a", "t", "c", "h", "?", "v", "=">>}

UrlHosts == {WatchHost, ShortHost, EmbedHost, ShoutedShortHost} \cup OtherHosts

VideoIds == {<<"a", "1">>, <<"d", "Q", "-", "_", "9">>}

Followers == {<<>>, <<" ", "n", "o", "w">>, <<"?", "t", "=", "5">>, <<"&", "t", "=", "5">>, <<".">>}

InitYoutube ==
    /\ ProtocolAtRest
    /\ call \in {[fn |-> "youtube", pc |-> "called", host |-> h, id |-> v, follower |-> f,
                  text |-> l \o sc \o w \o h \o v \o f, result |-> NoResult] :
                    l \in LeadIns, sc \in Schemes, w \in WwwPrefixes, h \in UrlHosts,
                    v \in VideoIds, f \in Followers}

YoutubeReturns ==
    /\ call.pc = "called"
    /\ call.fn = "youtube"
    /\ call' = [call EXCEPT !.pc = "returned",
                            !.result = [is_youtube_url |-> is_youtube_url(call.text),
                                        url |-> extract_youtube_url(call.text)]]
    /\ ProtocolUnchanged

NextYoutube == YoutubeReturns

SpecYoutube == InitYoutube /\ [][NextYoutube]_vars

\* ------------------------------------------------------------ properties

\* The oracle answers with a JSON object that resolves to a string label.
OracleResolves(reply) ==
    /\ reply.kind = "json"
    /\ reply.value.t = "obj"
    /\ LET f == reply.value.v
       IN /\ "intent" \in DOMAIN f
          /\ f["intent"].t = "str"
          /\ "needs_clarification" \in DOMAIN f => f["needs_clarification"] = JBool(FALSE)
          /\ "confidence" \in DOMAIN f => f["confidence"].t = "num"

\* The oracle call fails, or its reply is not a JSON object.
OracleFails(reply) ==
    \/ reply.kind = "error"
    \/ reply.kind = "text"
    \/ reply.kind = "json" /\ reply.value.t # "obj"

AnsweredClarify(u) == req[u].pc = "respond" /\ req[u].kind = "clarify"

AnsweredProcess(u) == req[u].pc = "respond" /\ req[u].kind = "process"

C2_NoContextRefused ==
    [][\A u \in Clients :
          (/\ req[u].pc = "start"
           /\ req[u].kind = "clarify"
           /\ req'[u].pc = "respond"
           /\ conversation_contexts[req[u].session_id] = NoContext)
          => /\ req'[u].response = Http400(SessionExpired)
             /\ StatusOf(req'[u].response) # "success"
             /\ req'[u].calls = <<>>
             /\ req'[u].intent_result = NoResult
             /\ req'[u].final_result = NoResult
             /\ conversation_contexts' = conversation_contexts]_vars

\* The refused /clarify comes after the session's context was already served.
C2_Witness ==
    \E u \in Clients :
        /\ AnsweredClarify(u)
        /\ req[u].response = Http400(SessionExpired)
        /\ served[req[u].session_id] = 1
        /\ conversation_contexts[req[u].session_id] = NoContext

SufficientContent(r) ==
    /\ r.extracted_content # <<>>
    /\ Len(strip(r.extracted_content)) >= MinContentLen

\* C3: when the oracle fails during a /process whose content is sufficient,
\* the answer is needs_clarification with the canned question, the context
\* is stored under the session, and the answer is no error and no HTTP 500.
C3_OracleFailureAsks ==
    \A u \in Clients :
        LET r == req[u]
        IN (AnsweredProcess(u) /\ SufficientContent(r) /\ OracleFails(r.oracle))
           => /\ r.response.http = 200
              /\ StatusOf(r.response) = "needs_clarification"
              /\ r.response.question = JStr(CannedQuestion)
              /\ conversation_contexts[r.session_id] =
                     [extracted_content |-> r.extracted_content,
                      extraction_metadata |-> r.extraction_metadata]

C3_Witness ==
    \E u \in Clients :
        /\ AnsweredProcess(u)
        /\ SufficientContent(req[u])
        /\ req[u].oracle.kind = "error"
        /\ StatusOf(req[u].response) = "needs_clarification"
        /\ conversation_contexts[req[u].session_id] # NoContext

\* C4: a /clarify that ends in needs_clarification again leaves the store as
\* it was, and a stored context disappears only in the step of a /clarify on
\* its session that resolved and whose dispatch returned (answer success).
C4_KeptUntilResolved ==
    [][/\ \A u \in Clients :
            (/\ req[u].pc = "start"
             /\ req[u].kind = "clarify"
             /\ req'[u].pc = "respond"
             /\ StatusOf(req'[u].response) = "needs_clarification")
            => /\ conversation_contexts' = conversation_contexts
               /\ conversation_contexts[req[u].session_id] = req'[u].context
               /\ req'[u].context # NoContext
       /\ \A s \in SessionIds :
            (conversation_contexts[s] # NoContext /\ conversation_contexts'[s] = NoContext)
            => \E u \in Clients :
                  /\ req[u].pc = "start"
                  /\ req[u].kind = "clarify"
                  /\ req[u].session_id = s
                  /\ req'[u].pc = "respond"
                  /\ StatusOf(req'[u].response) = "success"
                  /\ ~req'[u].intent_result.needs_clarification
                  /\ req'[u].final_result # NoResult]_vars

\* A second round: the /clarify that is asked again was not preceded by the
\* /process on its session, and its context is still stored.
C4_Witness ==
    \E u \in Clients :
        /\ AnsweredClarify(u)
        /\ StatusOf(req[u].response) = "needs_clarification"
        /\ ~lastOn[req[u].session_id].asked
        /\ conversation_contexts[req[u].session_id] = req[u].context

\* C5: one stored context never produces two success answers, and when a
\* /clarify has answered success its session's entry is already gone, so a
\* concurrent /clarify for the same session finds none.
C5_AtMostOneServed ==
    /\ \A s \in SessionIds : served[s] <= 1
    /\ \A u \in Clients, v \in Clients :
          (/\ u # v
           /\ AnsweredClarify(u)
           /\ StatusOf(req[u].response) = "success"
           /\ req[v].pc = "start"
           /\ req[v].kind = "clarify"
           /\ req[v].session_id = req[u].session_id)
          => /\ conversation_contexts[req[v].session_id] = NoContext
             /\ clarify_intent(TClarification, req[v].session_id, conversation_contexts,
                               req[u].oracle, "ok").response = Http400(SessionExpired)

\* Two /clarify requests for one session are in flight; one has been served.
C5_Witness ==
    \E u \in Clients, v \in Clients :
        /\ u # v
        /\ AnsweredClarify(u)
        /\ StatusOf(req[u].response) = "success"
        /\ req[v].pc = "start"
        /\ req[v].kind = "clarify"
        /\ req[v].session_id = req[u].session_id

\* C6: a request of a caller who omitted the session identifier is answered
\* as it would be had no other client ever used the service.
C6_NonInterference ==
    \A u \in Clients :
        (req[u].pc = "respond" /\ req[u].session_id = SessionOf(Omitted))
        => req[u].response = req[u].alone_response

ClassifyReturned == call.pc = "returned" /\ call.fn = "classify"

\* C8: a classification result with success = false has
\* needs_clarification = true and a question that is not null.
C8_FailureAsks ==
    (ClassifyReturned /\ ~call.result.raised /\ ~call.result.value.success)
    => /\ call.result.value.needs_clarification = TRUE
       /\ call.result.value.clarification_question # JNull
       /\ call.result.value.clarification_question.t = "str"

C8_Witness ==
    /\ ClassifyReturned
    /\ ~call.result.raised
    /\ ~call.result.value.success
    /\ call.reply.kind = "text"

ClassificationFields ==
    {"intent", "confidence", "needs_clarification", "clarification_question",
     "reasoning", "success"}

\* C9: classify never raises and returns a record with the six fields for
\* every oracle behaviour; when the oracle call or the parsing fails the
\* record is the fixed fallback (unknown, 0.0, true, canned question, false).
C9_ClassifyTotal ==
    ClassifyReturned
    => /\ ~call.result.raised
       /\ DOMAIN call.result.value = ClassificationFields
       /\ OracleFails(call.reply)
          => /\ call.result.value.intent = JStr("unknown")
             /\ call.result.value.confidence = 0
             /\ call.result.value.needs_clarification = TRUE
             /\ call.result.value.clarification_question = JStr(CannedQuestion)
             /\ call.result.value.success = FALSE

\* The reply is JSON, but a list instead of an object.
C9_Witness ==
    /\ ClassifyReturned
    /\ call.reply.kind = "json"
    /\ call.reply.value.t = "list"
    /\ ~call.result.raised
    /\ call.result.value.success = FALSE

ExecuteReturned == call.pc = "returned" /\ call.fn = "execute"

TableLabels ==
    {"text_extraction", "youtube_transcript", "summarization", "sentiment_analysis",
     "code_explanation", "qa", "unknown"}

\* C10: execute looks the intent up in a table of exactly seven labels; a
\* label in the table runs the handler the table gives it, and every label
\* outside it runs the unknown handler: success = false, the fixed guidance
\* message, and a preview of the content cut to 200 characters plus an
\* ellipsis.
C10_UnknownDispatch ==
    /\ task_map = TableLabels
    /\ Cardinality(task_map) = 7
    /\ (ExecuteReturned /\ call.intent.t = "str")
       => /\ ~call.result.raised
          /\ call.result.result.task_type = call.intent
          /\ call.intent.v \in TableLabels => call.result.handler = call.intent.v
          /\ call.intent.v \notin TableLabels
             => LET res == call.result.result
                    c == call.content
                IN /\ call.result.handler = "unknown"
                   /\ res.success = FALSE
                   /\ res.message =
                        "I'm not sure what you'd like me to do. Please provide more specific instructions."
                   /\ res.content_preview =
                        IF Len(c) > 200 THEN SubSeq(c, 1, 200) \o <<".", ".", ".">> ELSE c
                   /\ Len(res.content_preview) <= 203

C10_Witness ==
    /\ ExecuteReturned
    /\ call.intent = JStr("translate")
    /\ Len(call.content) = 201
    /\ call.result.handler = "unknown"
    /\ Len(call.result.result.content_preview) = 203

\* C11: every result execute returns has a task_type equal to the requested
\* intent, whether a registered handler ran, the unknown handler ran as the
\* fallback, or the handler raised and the except clause built the result.
C11_TaskTypeIsIntent ==
    (ExecuteReturned /\ ~call.result.raised)
    => /\ "task_type" \in DOMAIN call.result.result
       /\ call.result.result.task_type = call.intent

\* The fallback and the exception path at once: a label outside the table
\* whose unknown handler raised on the content.
C11_Witness ==
    /\ ExecuteReturned
    /\ call.intent = JStr("translate")
    /\ call.content = None
    /\ ~call.result.raised
    /\ "error" \in DOMAIN call.result.result
    /\ call.result.result.task_type = JStr("translate")

\* C12: every result execute returns has a result_type that equals the
\* requested intent, also when the unknown handler ran as the fallback.
C12_ResultTypeMirrorsIntent ==
    (ExecuteReturned /\ call.intent.t = "str")
    => /\ "result_type" \in DOMAIN call.result.result
       /\ JStr(call.result.result.result_type) = call.intent

\* The handler the call selects takes len(content) of a content that is None.
RaisingCall ==
    /\ call.content = None
    /\ Hashable(call.intent)
    /\ \/ call.intent = JStr("text_extraction")
       \/ call.intent = JStr("unknown")
       \/ call.intent.t # "str"
       \/ call.intent.v \notin TableLabels

\* C13: when the selected handler raises, execute does not raise: it returns
\* success = false, the error and 'Failed to execute <intent> task'; the
\* table stays the seven entries, and a dispatch after a failure runs the
\* handler the table gives and returns what that handler returns.
C13_HandlerFailureIsolated ==
    /\ task_map = TableLabels
    /\ (ExecuteReturned /\ RaisingCall)
       => /\ ~call.result.raised
          /\ call.result.result.success = FALSE
          /\ call.result.result.error = "TypeError"
          /\ call.result.result.message = <<"Failed to execute ", call.intent, " task">>
    /\ (ExecuteReturned /\ "failed_before" \in DOMAIN call /\ Hashable(call.intent))
       => /\ ~call.result.raised
          /\ call.result.handler =
                IF call.intent.t = "str" /\ call.intent.v \in TableLabels
                THEN call.intent.v ELSE "unknown"
          /\ (call.content # None /\ call.intent = JStr("text_extraction"))
             => /\ call.result.result.success = TRUE
                /\ call.result.result.extracted_text = call.content
                /\ call.result.result.character_count = Len(call.content)
          /\ (call.content # None /\ call.result.handler = "unknown")
             => /\ call.result.result.success = FALSE
                /\ call.result.result.content_preview = call.content
                /\ "error" \notin DOMAIN call.result.result

\* The handler that raised in the call before succeeds in this one.
C13_Witness ==
    /\ ExecuteReturned
    /\ "failed_before" \in DOMAIN call
    /\ call.failed_before = "text_extraction"
    /\ call.intent = JStr("text_extraction")
    /\ call.content = TMin
    /\ call.result.result.success = TRUE

ProcessReturned == call.pc = "returned" /\ call.fn = "process_input"

ClarifyReturned == call.pc = "returned" /\ call.fn = "clarify_intent"

\* The request was refused with an HTTP error raised by the handler.
Refused == "detail" \in DOMAIN call.result.response

\* C14: in /process, extracted content whose length after trimming is 5 or
\* more goes on to classification; content whose trimmed length is 4 or less
\* (or empty) ends with status error 'Could not extract meaningful content
\* from input' and the classifier is not called.
C14_MinimumContent ==
    (ProcessReturned /\ ~Refused)
    => LET o == call.result
       IN IF Len(strip(o.extracted_content)) >= 5
          THEN /\ o.calls # <<>>
               /\ o.calls[1].fn = "classify"
               /\ ~(o.response.http = 200 /\ o.response.status = "error")
          ELSE /\ o.response.http = 200
               /\ o.response.status = "error"
               /\ o.response.message = "Could not extract meaningful content from input"
               /\ o.calls = <<>>
               /\ o.intent_result = NoResult

\* Padded content whose trimmed length is exactly 5 is classified.
C14_Witness ==
    /\ ProcessReturned
    /\ call.result.extracted_content = <<" ", "w", "o", "r", "l", "d", " ">>
    /\ Len(strip(call.result.extracted_content)) = 5
    /\ call.result.calls # <<>>
    /\ call.result.calls[1].fn = "classify"

\* The request ended in an input error: refused, or insufficient content.
InputError ==
    \/ Refused
    \/ /\ call.result.response.http = 200
       /\ call.result.response.status = "error"

\* C15: a /process request that ends in an input error (no input, file kind
\* not supported, failed file extraction, insufficient content) leaves the
\* store exactly as it was, for every session id.
C15_InputErrorsStoreNothing ==
    (ProcessReturned /\ InputError)
    => \A s \in SessionIds : call.result.contexts[s] = call.contexts[s]

\* Insufficient content on a session that has a stored context.
C15_Witness ==
    /\ ProcessReturned
    /\ ~Refused
    /\ InputError
    /\ call.contexts[call.session_id] # NoContext
    /\ call.result.contexts = call.contexts

\* C16: every response of /process and /clarify carries a status that is
\* 'error', 'needs_clarification' or 'success', on every path.
C16_ThreeTaggedOutcomes ==
    \A u \in Clients :
        req[u].pc = "respond"
        => /\ "status" \in DOMAIN req[u].response
           /\ req[u].response.status \in {"error", "needs_clarification", "success"}

HandlerReturned == ProcessReturned \/ ClarifyReturned

\* The utterance the handler works with.
Utterance == IF call.fn = "process_input" THEN call.text ELSE call.clarification

DispatchRaised ==
    /\ Len(call.result.calls) = 2
    /\ call.result.calls[2].intent.t \in {"list", "obj"}

\* C18: an exception raised inside /process or /clarify that is not one of
\* the deliberate HTTP errors is answered by the handler itself as a
\* status error server error whose logs are the steps up to the failure
\* followed by an entry for the error.
C18_CatchAll ==
    (HandlerReturned /\ DispatchRaised)
    => LET o == call.result
           n == Len(o.response.logs)
       IN /\ o.response.http = 500
          /\ o.response.status = "error"
          /\ o.response.message = "TypeError"
          /\ n >= 3
          /\ o.response.logs[1] = IF call.fn = "process_input"
                                  THEN "Processing your request..."
                                  ELSE "Processing your clarification..."
          /\ o.response.logs[n - 1] = "Executing task"
          /\ o.response.logs[n] = "Error"

C18_Witness ==
    /\ ClarifyReturned
    /\ DispatchRaised
    /\ call.result.response.http = 500
    /\ call.result.response.logs[Len(call.result.response.logs)] = "Error"

\* Position of the first occurrence of an entry in a log, 0 when absent.
LogIndex(logs, entry) ==
    IF \E i \in 1..Len(logs) : logs[i] = entry
    THEN CHOOSE i \in 1..Len(logs) :
            logs[i] = entry /\ \A j \in 1..(i - 1) : logs[j] # entry
    ELSE 0

\* The request is a text with a YouTube URL and no upload.
YoutubeRequest ==
    /\ ProcessReturned
    /\ call.file = NoFile
    /\ call.text = TYoutube
    /\ is_youtube_url(call.text)

First800(text) == IF Len(text) > 800 THEN SubSeq(text, 1, 800) ELSE text

\* C20: a /clarify that finds its context classifies the stored content with
\* the clarification as the utterance and, on resolution, dispatches with
\* the resolved intent, the stored content and the clarification; a /process
\* dispatches with the extracted content and the request's text.
C20_UtteranceAndContent ==
    /\ (ClarifyReturned /\ call.contexts[call.session_id] # NoContext)
       => LET o == call.result
              stored == call.contexts[call.session_id].extracted_content
          IN /\ Len(o.calls) >= 1
             /\ o.calls[1] = [fn |-> "classify",
                              prompt |-> [content |-> First800(stored),
                                          query |-> call.clarification]]
             /\ (o.intent_result # NoResult /\ ~o.intent_result.needs_clarification)
                => /\ Len(o.calls) = 2
                   /\ o.calls[2] = [fn |-> "execute",
                                    intent |-> o.intent_result.intent,
                                    content |-> stored,
                                    user_query |-> call.clarification]
             /\ (o.final_result # NoResult /\ o.final_result.result_type = "qa")
                => o.final_result.response.question = call.clarification
             /\ (o.final_result # NoResult
                    /\ o.final_result.result_type = "text_extraction")
                => o.final_result.extracted_text = stored
    /\ (ProcessReturned /\ call.result.calls # <<>>)
       => LET o == call.result
          IN /\ o.calls[1].fn = "classify"
             /\ o.calls[1].prompt.content = First800(o.extracted_content)
             /\ call.text \notin {None, <<>>} => o.calls[1].prompt.query = call.text
             /\ (o.intent_result # NoResult /\ ~o.intent_result.needs_clarification)
                => /\ Len(o.calls) = 2
                   /\ o.calls[2] = [fn |-> "execute",
                                    intent |-> o.intent_result.intent,
                                    content |-> o.extracted_content,
                                    user_query |-> call.text]

\* A resolved /clarify answers the clarification as the question about the
\* stored content.
C20_Witness ==
    /\ ClarifyReturned
    /\ call.contexts[call.session_id] # NoContext
    /\ call.result.response.status = "success"
    /\ call.result.final_result.result_type = "qa"
    /\ call.result.final_result.response.question = call.clarification
    /\ call.result.calls[2].content = call.contexts[call.session_id].extracted_content

\* C21: in every classification result classify returns,
\* needs_clarification = true implies a clarification_question that is not
\* null.
C21_AskingHasQuestion ==
    (ClassifyReturned /\ ~call.result.raised /\ call.result.value.needs_clarification)
    => call.result.value.clarification_question # JNull

YoutubeReturned == call.pc = "returned" /\ call.fn = "youtube"

\* C22: for a text containing a youtube.com/watch?v=ID or youtu.be/ID URL,
\* alone or inside a sentence, is_youtube_url is true and extract_youtube_url
\* returns a URL containing 'youtube.com/watch?v=', for the short form
\* exactly https://www.youtube.com/watch?v=ID; for a text without a YouTube
\* URL is_youtube_url is false.
C22_DetectAndNormalize ==
    YoutubeReturned
    => /\ call.host \in {WatchHost, ShortHost}
          => /\ call.result.is_youtube_url
             /\ Contains(call.result.url, WatchHost)
       /\ call.host = ShortHost
          => call.result.url = CanonicalPrefix \o call.id
       /\ call.host \in OtherHosts => ~call.result.is_youtube_url

\* C23: the entry stored under a session id is always exactly the content
\* and metadata of the most recent /process on it that ended in
\* needs_clarification and has not since been resolved by a /clarify: a later
\* asking /process overwrites it, a /process that ends in success or error
\* leaves it as it was.
C23_StoreIsLastUnresolved ==
    /\ \A s \in SessionIds : conversation_contexts[s] = pending[s]
    /\ \A u \in Clients :
          (AnsweredProcess(u) /\ StatusOf(req[u].response) = "needs_clarification")
          => conversation_contexts[req[u].session_id] =
                [extracted_content |-> req[u].extracted_content,
                 extraction_metadata |-> req[u].extraction_metadata]

\* A /process ended in success on a session that still holds the content of
\* an older request: a /clarify that follows acts on the older content.
C23_Witness ==
    \E u \in Clients :
        /\ AnsweredProcess(u)
        /\ StatusOf(req[u].response) = "success"
        /\ conversation_contexts[req[u].session_id] # NoContext
        /\ conversation_contexts[req[u].session_id].extracted_content
              # req[u].extracted_content

\* C24: in /process and /clarify a task handler runs, exactly once and after
\* classification, if and only if classification returned
\* needs_clarification = false, whatever the intent and confidence, and the
\* request then ends in status success.
C24_OneHandlerIffResolved ==
    (HandlerReturned /\ call.result.intent_result # NoResult)
    => LET o == call.result
       IN /\ o.calls[1].fn = "classify"
          /\ o.intent_result.needs_clarification
             => /\ Len(o.calls) = 1
                /\ o.final_result = NoResult
          /\ ~o.intent_result.needs_clarification
             => /\ Len(o.calls) = 2
                /\ o.calls[2].fn = "execute"
                /\ o.final_result # NoResult
                /\ o.response.status = "success"

C26_DispatchTotal ==
    ExecuteReturned
    => /\ ~call.result.raised
       /\ "success" \in DOMAIN call.result.result

\* C27 as stated: every /process that ends without the classifier having
\* been called ends with the insufficient-content outcome.
C27_OnlyBypassAsStated ==
    (ProcessReturned /\ call.result.calls = <<>>)
    => /\ StatusOf(call.result.response) = "error"
       /\ call.result.response.message = "Could not extract meaningful content from input"

InputErrorDetails ==
    {"No input provided (text or file required)", "Unsupported file type",
     "Image extraction failed", "PDF extraction failed", "Audio transcription failed"}

\* C27: every /process that ends without the classifier having been called
\* ends either refused with HTTP 400 for one of the input errors (no input,
\* file type not supported, failed file extraction) or with the
\* insufficient-content outcome; every other ending has called the classifier.
C27_BypassIsInputError ==
    (ProcessReturned /\ call.result.calls = <<>>)
    => LET r == call.result.response
       IN \/ /\ Refused
             /\ r.http = 400
             /\ r.detail \in InputErrorDetails
          \/ /\ ~Refused
             /\ r.http = 200
             /\ r.status = "error"
             /\ r.message = "Could not extract meaningful content from input"
             /\ Len(strip(call.result.extracted_content)) < 5

\* Content was extracted (an image with no text in it) and is insufficient.
C27_Witness ==
    /\ ProcessReturned
    /\ call.result.calls = <<>>
    /\ ~Refused
    /\ call.file # NoFile
    /\ call.result.extraction_metadata # EmptyMeta
    /\ call.result.response.status = "error"

\* The calls of one request to the function fn.
CallsTo(u, fn) == {i \in DOMAIN req[u].calls : req[u].calls[i].fn = fn}

\* C28: no accepted request stays unanswered: the server reaches a point
\* after which every request it accepted has been answered and returned. A
\* request calls the classifier at most once and the router at most once,
\* classifier first; a failed oracle call is not repeated: the request takes
\* the fallback classification and ends asking for clarification without
\* dispatching.
C28_TerminatesWithoutRetry ==
    /\ <>[](\A u \in Clients : req[u].pc = "idle")
    /\ [](\A u \in Clients :
            req[u].pc = "respond"
            => /\ Cardinality(CallsTo(u, "classify")) <= 1
               /\ Cardinality(CallsTo(u, "execute")) <= 1
               /\ Len(req[u].calls) <= 2
               /\ CallsTo(u, "execute") # {} => req[u].calls[1].fn = "classify"
               /\ (req[u].oracle.kind = "error" /\ req[u].calls # <<>>)
                  => /\ Len(req[u].calls) = 1
                     /\ req[u].intent_result = get_fallback_intent
                     /\ req[u].final_result = NoResult
                     /\ StatusOf(req[u].response) = "needs_clarification")

\* A request whose oracle call failed has been answered from the fallback.
C28_Witness ==
    \E u \in Clients :
        /\ req[u].pc = "respond"
        /\ req[u].oracle.kind = "error"
        /\ Len(req[u].calls) = 1
        /\ StatusOf(req[u].response) = "needs_clarification"
        /\ nreq = MaxRequests

====
